---- MODULE Spec2Model ----
(***************************************************************************)
(* Reward strategies of loco_mujoco/utils/reward.py as a state machine.    *)
(*                                                                         *)
(* One behaviour follows one strategy object: it is constructed (or its    *)
(* constructor raises), and is then called (__call__, "evaluate") and      *)
(* reset (reset_state) any number of times by the environment loop.        *)
(*                                                                         *)
(* Numbers.  Observation and action entries, bounds, scales and costs are  *)
(* floats in the program; here they are integers of a grid, on which       *)
(* +, -, *, abs, square and the comparisons are exact.  The one float      *)
(* operation whose rounding is modelled is np.exp (see NpExp).             *)
(* Indices are Python's: 0-based, with At(s, i) reading s[i].              *)
(***************************************************************************)
EXTENDS Integers, Sequences, FiniteSets, TLC

VARIABLES
    ctor,   \* the constructor call: class name and keyword arguments
    inst,   \* the object's fields after __init__ (NoInst: no object exists)
    op,     \* the last operation performed
    args,   \* the arguments of the last __call__
    ret,    \* the outcome of the last __call__ (or of a raising __init__)
    log,    \* the collaborator calls made by the last __call__, in order
    first   \* history: the outcome of the first __call__ on the watched
            \* arguments, and whether those arguments were passed again since

vars == <<ctor, inst, op, args, ret, log, first>>

----------------------------------------------------------------------------
(* Bounds of the model *)

MaxVal == 2     \* action components and reference means lie in -MaxVal..MaxVal
MaxVel == 14    \* forward velocities and velocity targets lie in -MaxVel..MaxVel

(* Program constants *)

ByteBits == 8        \* np.packbits packs into uint8; the shift is 8 - len
ExpUnderflow == 745  \* float64: np.exp(x) is 0.0 exactly when x < -745.13...

----------------------------------------------------------------------------
(* Value sets the inputs are drawn from *)

Vals == -MaxVal..MaxVal
VelVals == -MaxVel..MaxVel
Scales == {-1, 0, 1, 2}
Costs == {-1, 0, 1}
FuncTypes == {"abs", "squared", "bogus", "square"}

----------------------------------------------------------------------------
(* Python / numpy helpers *)

\* s[i] with Python's 0-based index
At(s, i) == s[i + 1]

\* numpy broadcasting of a scalar (held as a 1-vector) against a vector
Bcast(b, i) == IF Len(b) = 1 THEN b[1] ELSE b[i]

Abs(x) == IF x < 0 THEN -x ELSE x
Square(x) == x * x

\* the function object stored in self.func, applied to one element
ApplyFunc(f, x) == IF f = "np.abs" THEN Abs(x) ELSE Square(x)

\* a bool used as a number (True -> 1, False -> 0)
B2I(b) == IF b THEN 1 ELSE 0

RECURSIVE NpSum(_)
NpSum(s) == IF s = <<>> THEN 0 ELSE Head(s) + NpSum(Tail(s))

\* The results of np.exp that the model tells apart: exactly 0.0 (underflow)
\* or exp(e) for an integer e; exp is strictly increasing on those, and
\* exp(0) is 1.0.
FZero == [f |-> "zero", e |-> 0]
FExp(k) == [f |-> "exp", e |-> k]
FOne == FExp(0)
NpExp(k) == IF k < -ExpUnderflow THEN FZero ELSE FExp(k)
FLess(a, b) ==
    \/ a.f = "zero" /\ b.f = "exp"
    \/ a.f = "exp" /\ b.f = "exp" /\ a.e < b.e
FLeq(a, b) == a = b \/ FLess(a, b)

----------------------------------------------------------------------------
(* Outcomes of a call *)

NoInst == [cls |-> "none"]
NoArgs == [state |-> <<>>, action |-> <<>>, next_state |-> <<>>, absorbing |-> FALSE]
NoRet == [status |-> "none"]
Ok(v) == [status |-> "ok", val |-> v]
Raised(e) == [status |-> e]

MkArgs(s, a, n, ab) == [state |-> s, action |-> a, next_state |-> n, absorbing |-> ab]

\* what a __call__ yields: the object afterwards, the outcome, the calls made
Result(self, r, l) == [self |-> self, ret |-> r, log |-> l]

----------------------------------------------------------------------------
(* class RewardInterface *)

\* reset_state: `pass`; every class below inherits it unchanged
\* a variant that clears the bookkeeping of an object that has some
reset_state_clear(self) ==
    IF "cycle_progress" \in DOMAIN self
    THEN [self EXCEPT !.cycle_progress = [i \in 1..Len(@) |-> 0]]
    ELSE self

reset_state(self) == self

----------------------------------------------------------------------------
(* class NoReward *)

NoReward_init == [self |-> [cls |-> "NoReward"], ret |-> NoRet]

NoReward_call(self, state, action, next_state, absorbing) ==
    Result(self, Ok(0), <<>>)

----------------------------------------------------------------------------
(* class PosReward *)

PosReward_init(pos_idx) ==
    [self |-> [cls |-> "PosReward", pos_idx |-> pos_idx], ret |-> NoRet]

\* a variant that remembers the position it last returned
PosReward_call_remember(self, state, action, next_state, absorbing) ==
    LET pos == At(state, self.pos_idx)
    IN  Result(self @@ [last_pos |-> pos], Ok(pos), <<>>)

PosReward_call(self, state, action, next_state, absorbing) ==
    LET pos == At(state, self.pos_idx)
    IN  Result(self, Ok(pos), <<>>)

----------------------------------------------------------------------------
(* class CustomReward *)

\* The injected reward callbacks the environment may supply: deterministic
\* functions of (state, action, next_state).
Callbacks == {"None", "sum_action", "progress"}

CallCallback(cb, state, action, next_state) ==
    IF cb = "sum_action" THEN NpSum(action)
    ELSE At(next_state, 0) - At(state, 0)

CustomReward_init(reward_callback) ==
    [self |-> [cls |-> "CustomReward", reward_callback |-> reward_callback],
     ret |-> NoRet]

CustomReward_call(self, state, action, next_state, absorbing) ==
    IF self.reward_callback # "None"
    THEN Result(self,
                Ok(CallCallback(self.reward_callback, state, action, next_state)),
                <<[call |-> "reward_callback", state |-> state, action |-> action,
                   next_state |-> next_state]>>)
    ELSE Result(self, Ok(0), <<>>)

----------------------------------------------------------------------------
(* class TargetVelocityReward *)

TargetVelocityReward_init(target_velocity, x_vel_idx) ==
    [self |-> [cls |-> "TargetVelocityReward", target_vel |-> target_velocity,
               x_vel_idx |-> x_vel_idx],
     ret |-> NoRet]

\* a variant that leaves out the square
TargetVelocityReward_call_nosquare(self, state, action, next_state, absorbing) ==
    LET x_vel == At(state, self.x_vel_idx)
    IN  Result(self, Ok(NpExp(-(x_vel - self.target_vel))), <<>>)

TargetVelocityReward_call(self, state, action, next_state, absorbing) ==
    LET x_vel == At(state, self.x_vel_idx)
    IN  Result(self, Ok(NpExp(-Square(x_vel - self.target_vel))), <<>>)

----------------------------------------------------------------------------
(* class MultiTargetVelocityReward *)

MultiTargetVelocityReward_init(target_velocity, x_vel_idx, env_id_len, scalings) ==
    [self |-> [cls |-> "MultiTargetVelocityReward", target_vel |-> target_velocity,
               env_id_len |-> env_id_len, scalings |-> scalings,
               x_vel_idx |-> x_vel_idx],
     ret |-> NoRet]

\* state[-n:] for n >= 1: the last n entries (all of them when n > len)
SliceLast(s, n) ==
    SubSeq(s, (IF Len(s) > n THEN Len(s) - n ELSE 0) + 1, Len(s))

Pow2(n) == 2 ^ n

\* a variant packing with bitorder='little'
PackBits_little(bits) ==
    LET nbytes == (Len(bits) + ByteBits - 1) \div ByteBits
        bit(k) == IF k <= Len(bits) /\ bits[k] # 0 THEN 1 ELSE 0
        byte(j) == NpSum([i \in 1..ByteBits |->
                            bit(ByteBits * (j - 1) + i) * Pow2(i - 1)])
    IN  [j \in 1..nbytes |-> byte(j)]

\* np.packbits(bits, bitorder='big'): the bits are padded with zeros at the
\* end to whole bytes; in each byte the first bit is the most significant.
\* A nonzero entry counts as a set bit.
PackBits(bits) ==
    LET nbytes == (Len(bits) + ByteBits - 1) \div ByteBits
        bit(k) == IF k <= Len(bits) /\ bits[k] # 0 THEN 1 ELSE 0
        byte(j) == NpSum([i \in 1..ByteBits |->
                            bit(ByteBits * (j - 1) + i) * Pow2(ByteBits - i)])
    IN  [j \in 1..nbytes |-> byte(j)]

\* arr >> k on uint8, elementwise (k >= 0)
ShiftRight(arr, k) == [j \in 1..Len(arr) |-> arr[j] \div Pow2(k)]

MultiTargetVelocityReward_call(self, state, action, next_state, absorbing) ==
    LET x_vel == At(state, self.x_vel_idx)
        env_id == SliceLast(state, self.env_id_len)
        packed == ShiftRight(PackBits(env_id), ByteBits - Len(env_id))
        ind == At(packed, 0)
    IN  IF ind >= Len(self.scalings)
        THEN Result(self, [status |-> "IndexError", ind |-> ind], <<>>)
        ELSE LET scaling == At(self.scalings, ind)
                 target_vel == self.target_vel * scaling
             IN  Result(self,
                        [status |-> "ok",
                         val |-> NpExp(-Square(x_vel - target_vel)),
                         ind |-> ind, target_vel |-> target_vel],
                        <<>>)

----------------------------------------------------------------------------
(* class VelocityVectorReward *)

VelocityVectorReward_init(x_vel_idx, y_vel_idx, rot_mat_idx, goal_vel_idx) ==
    [self |-> [cls |-> "VelocityVectorReward", x_vel_idx |-> x_vel_idx,
               y_vel_idx |-> y_vel_idx, rot_mat_idx |-> rot_mat_idx,
               goal_vel_idx |-> goal_vel_idx],
     ret |-> NoRet]

\* mat2angle_xy, cos, sin and the norm are not evaluated: the result is the
\* term exp(-5 * ||curr_velocity_xy - goal * dir(mat2angle_xy(rot_mat) - pi/2)||)
\* over the entries the call reads.
VelocityVectorReward_call(self, state, action, next_state, absorbing) ==
    LET curr_velocity_xy == <<At(state, self.x_vel_idx), At(state, self.y_vel_idx)>>
        rot_mat == [k \in 1..Len(self.rot_mat_idx) |-> At(state, self.rot_mat_idx[k])]
        goal == At(state, self.goal_vel_idx)
    IN  Result(self,
               Ok([f |-> "exp(-5*norm)", cur |-> curr_velocity_xy,
                   rot |-> rot_mat, goal |-> goal]),
               <<>>)

----------------------------------------------------------------------------
(* class OutOfBoundsActionCost *)

OutOfBoundsActionCost_init(lower_bound, upper_bound, reward_scale, const_cost, func_type) ==
    LET fields == [cls |-> "OutOfBoundsActionCost", lower_bound |-> lower_bound,
                   upper_bound |-> upper_bound, reward_scale |-> reward_scale,
                   const_cost |-> const_cost]
    IN  IF func_type = "abs"
        THEN [self |-> fields @@ [func |-> "np.abs"], ret |-> NoRet]
        ELSE IF func_type = "squared"
        THEN [self |-> fields @@ [func |-> "np.square"], ret |-> NoRet]
        ELSE [self |-> NoInst, ret |-> Raised("Exception")]

\* a variant with the comparisons made non-strict (<= and >=)
OutOfBoundsActionCost_call_nonstrict(self, state, action, next_state, absorbing) ==
    LET n == Len(action)
        lb(i) == Bcast(self.lower_bound, i)
        ub(i) == Bcast(self.upper_bound, i)
        lower_cost == [i \in 1..n |->
                         (lb(i) - action[i] + self.const_cost) * B2I(action[i] <= lb(i))]
        upper_cost == [i \in 1..n |->
                         (action[i] - ub(i) + self.const_cost) * B2I(action[i] >= ub(i))]
        penalty == [i \in 1..n |-> ApplyFunc(self.func, lower_cost[i] + upper_cost[i])]
    IN  Result(self, Ok(-1 * self.reward_scale * NpSum(penalty)), <<>>)

OutOfBoundsActionCost_call(self, state, action, next_state, absorbing) ==
    LET n == Len(action)
        lb(i) == Bcast(self.lower_bound, i)
        ub(i) == Bcast(self.upper_bound, i)
        lower_cost == [i \in 1..n |->
                         (lb(i) - action[i] + self.const_cost) * B2I(action[i] < lb(i))]
        upper_cost == [i \in 1..n |->
                         (action[i] - ub(i) + self.const_cost) * B2I(action[i] > ub(i))]
        penalty == [i \in 1..n |-> ApplyFunc(self.func, lower_cost[i] + upper_cost[i])]
    IN  Result(self, Ok(-1 * self.reward_scale * NpSum(penalty)), <<>>)

----------------------------------------------------------------------------
(* class ActionCost *)

\* a variant that falls back to np.abs for an unknown func_type
ActionCost_init_default(action_mean, reward_scale, func_type) ==
    LET fields == [cls |-> "ActionCost", action_mean |-> action_mean,
                   reward_scale |-> reward_scale]
    IN  IF func_type = "squared"
        THEN [self |-> fields @@ [func |-> "np.square"], ret |-> NoRet]
        ELSE [self |-> fields @@ [func |-> "np.abs"], ret |-> NoRet]

ActionCost_init(action_mean, reward_scale, func_type) ==
    LET fields == [cls |-> "ActionCost", action_mean |-> action_mean,
                   reward_scale |-> reward_scale]
    IN  IF func_type = "abs"
        THEN [self |-> fields @@ [func |-> "np.abs"], ret |-> NoRet]
        ELSE IF func_type = "squared"
        THEN [self |-> fields @@ [func |-> "np.square"], ret |-> NoRet]
        ELSE [self |-> NoInst, ret |-> Raised("Exception")]

\* a variant that returns the cost unnegated
ActionCost_call_unsigned(self, state, action, next_state, absorbing) ==
    LET n == Len(action)
        penalty == [i \in 1..n |->
                      ApplyFunc(self.func, action[i] - Bcast(self.action_mean, i))]
    IN  Result(self, Ok(self.reward_scale * NpSum(penalty)), <<>>)

ActionCost_call(self, state, action, next_state, absorbing) ==
    LET n == Len(action)
        penalty == [i \in 1..n |->
                      ApplyFunc(self.func, action[i] - Bcast(self.action_mean, i))]
    IN  Result(self, Ok(-1 * self.reward_scale * NpSum(penalty)), <<>>)

----------------------------------------------------------------------------
(* class InBoundsBonus *)

InBoundsBonus_init(lower_bound, upper_bound, reward_scale, bonus_val) ==
    [self |-> [cls |-> "InBoundsBonus", lower_bound |-> lower_bound,
               upper_bound |-> upper_bound, reward_scale |-> reward_scale,
               bonus_val |-> bonus_val],
     ret |-> NoRet]

\* a variant with the comparisons made non-strict (>=)
InBoundsBonus_call_nonstrict(self, state, action, next_state, absorbing) ==
    LET n == Len(action)
        bonus == [i \in 1..n |->
                    self.bonus_val * (B2I(Bcast(self.upper_bound, i) >= action[i])
                                      * B2I(action[i] >= Bcast(self.lower_bound, i)))]
    IN  Result(self, Ok(self.reward_scale * NpSum(bonus)), <<>>)

InBoundsBonus_call(self, state, action, next_state, absorbing) ==
    LET n == Len(action)
        bonus == [i \in 1..n |->
                    self.bonus_val * (B2I(Bcast(self.upper_bound, i) > action[i])
                                      * B2I(action[i] > Bcast(self.lower_bound, i)))]
    IN  Result(self, Ok(self.reward_scale * NpSum(bonus)), <<>>)

----------------------------------------------------------------------------
(* class ModulationDifferencePenalty *)

\* The injected collaborators: cycle-percentage predictors, each a function of
\* the observation, and action-space modulators, each a function of the action
\* and the cycle-progress vector returning an action of the same shape.
Modulators == {"offset", "gain"}

predict_cycle_percentage(channel, state) ==
    IF channel = "phase0" THEN At(state, 0) ELSE At(state, 1)

modulate_action(modulator, action, cycle_progress) ==
    IF modulator = "offset"
    THEN [i \in 1..Len(action) |-> action[i] + NpSum(cycle_progress)]
    ELSE [i \in 1..Len(action) |-> action[i] * NpSum(cycle_progress)]

\* np.zeros(n)
NpZeros(n) == [i \in 1..n |-> 0]

ModulationDifferencePenalty_init(action_space_modulator, cycle_percentage_predictors, reward_scale, func_type) ==
    LET fields == [cls |-> "ModulationDifferencePenalty",
                   cycle_percentage_predictors |-> cycle_percentage_predictors,
                   action_space_modulator |-> action_space_modulator,
                   cycle_progress |-> NpZeros(Len(cycle_percentage_predictors)),
                   reward_scale |-> reward_scale]
    IN  IF func_type = "abs"
        THEN [self |-> fields @@ [func |-> "np.abs"], ret |-> NoRet]
        ELSE IF func_type = "squared"
        THEN [self |-> fields @@ [func |-> "np.square"], ret |-> NoRet]
        ELSE [self |-> NoInst, ret |-> Raised("Exception")]

\* a variant that keeps the cycle progress in a local and does not store it
ModulationDifferencePenalty_call_uncached(self, state, action, next_state, absorbing) ==
    LET channels == self.cycle_percentage_predictors
        cycle_progress == [k \in 1..Len(channels) |->
                             predict_cycle_percentage(channels[k], state)]
        predicted == [k \in 1..Len(channels) |->
                        [call |-> "predict_cycle_percentage", channel |-> k - 1,
                         state |-> state]]
        modulated_action == modulate_action(self.action_space_modulator, action,
                                            cycle_progress)
        modulated == <<[call |-> "modulate_action", action |-> action,
                        cycle_progress |-> cycle_progress]>>
        modulated_action_diff == [i \in 1..Len(action) |-> action[i] - modulated_action[i]]
        penalty == [i \in 1..Len(action) |-> ApplyFunc(self.func, modulated_action_diff[i])]
    IN  Result(self, Ok(-1 * self.reward_scale * NpSum(penalty)),
               predicted \o modulated)

\* a variant that modulates with the progress cached before this call and
\* stores the new progress afterwards
ModulationDifferencePenalty_call_stale(self, state, action, next_state, absorbing) ==
    LET channels == self.cycle_percentage_predictors
        modulated_action == modulate_action(self.action_space_modulator, action,
                                            self.cycle_progress)
        modulated == <<[call |-> "modulate_action", action |-> action,
                        cycle_progress |-> self.cycle_progress]>>
        cycle_progress == [k \in 1..Len(channels) |->
                             predict_cycle_percentage(channels[k], state)]
        predicted == [k \in 1..Len(channels) |->
                        [call |-> "predict_cycle_percentage", channel |-> k - 1,
                         state |-> state]]
        self1 == [self EXCEPT !.cycle_progress = cycle_progress]
        modulated_action_diff == [i \in 1..Len(action) |-> action[i] - modulated_action[i]]
        penalty == [i \in 1..Len(action) |-> ApplyFunc(self.func, modulated_action_diff[i])]
    IN  Result(self1, Ok(-1 * self.reward_scale * NpSum(penalty)),
               predicted \o modulated)

ModulationDifferencePenalty_call(self, state, action, next_state, absorbing) ==
    LET channels == self.cycle_percentage_predictors
        cycle_progress == [k \in 1..Len(channels) |->
                             predict_cycle_percentage(channels[k], state)]
        self1 == [self EXCEPT !.cycle_progress = cycle_progress]
        predicted == [k \in 1..Len(channels) |->
                        [call |-> "predict_cycle_percentage", channel |-> k - 1,
                         state |-> state]]
        modulated_action == modulate_action(self1.action_space_modulator, action,
                                            self1.cycle_progress)
        modulated == <<[call |-> "modulate_action", action |-> action,
                        cycle_progress |-> self1.cycle_progress]>>
        modulated_action_diff == [i \in 1..Len(action) |-> action[i] - modulated_action[i]]
        penalty == [i \in 1..Len(action) |-> ApplyFunc(self1.func, modulated_action_diff[i])]
    IN  Result(self1, Ok(-1 * self1.reward_scale * NpSum(penalty)),
               predicted \o modulated)

----------------------------------------------------------------------------
(* Inputs of the environment loop *)

\* Action vectors: two actuators
Actions == Vals \X Vals
ZeroAction == <<0, 0>>
OneAction == <<1, 1>>
SmallActions == {<<0, 0>>, <<1, -1>>, <<-1, 2>>}

\* Calls that vary the action.  The arguments a strategy does not read vary
\* too: every action comes with one observation pair, a few with another.
ActionArgs ==
    {MkArgs(<<0, 1>>, a, <<1, 1>>, FALSE) : a \in Actions}
        \cup {MkArgs(<<1, 0>>, a, <<0, 0>>, TRUE) : a \in SmallActions}

\* Calls that vary the observation over S; likewise for the other arguments.
StateArgs(S) ==
    {MkArgs(st, ZeroAction, <<1, 1>>, FALSE) : st \in S}
        \cup {MkArgs(st, OneAction, <<0, 0>>, TRUE) : st \in {x \in S : x[1] = 0}}

\* Bounds as the constructors take them: a scalar (broadcast, held as a
\* 1-vector) or one entry per actuator.  Inverted bounds are accepted too.
BoundPairs ==
    {<<(<<-1>>), (<<1>>)>>, <<(<<0>>), (<<1>>)>>,
     <<(<<1>>), (<<-1>>)>>, <<(<<-1, 0>>), (<<0, 1>>)>>}
Means == {<<0, 0>>, <<1, -1>>} \cup {<<1>>}

PosObs == Vals \X Vals
PosArgs == StateArgs(PosObs)
VelObs == {<<v, 0>> : v \in VelVals} \cup {<<0, v>> : v \in VelVals}
VelArgs == StateArgs(VelObs)
TargetVels == {-MaxVel, -1, 0, MaxVel}

\* Observations ending in a 0/1 environment id of n entries, after the
\* velocity and possibly one more entry.  The ids: every one for n <= 3,
\* else those with at most one bit set or at most one bit clear.
BitVectors(n) == {b \in [1..n -> {0, 1}] : n <= 3 \/ NpSum(b) <= 1 \/ NpSum(b) >= n - 1}
EnvObs(n) == {<<v>> \o pad \o bits :
                v \in {0, 3}, pad \in {<<>>, <<1>>}, bits \in BitVectors(n)}
Ramp(n) == [i \in 1..n |-> i]
ScalingSets == {Ramp(2), Ramp(4), Ramp(16)}
EnvArgs == [n \in 1..ByteBits |-> StateArgs(EnvObs(n))]

RotMats == {<<1, 0, 0, 0, 1, 0, 0, 0, 1>>, <<0, -1, 0, 1, 0, 0, 0, 0, 1>>}
VecObs == {<<vx, vy>> \o m \o <<g>> : vx \in {0, 1}, vy \in {0, 1}, m \in RotMats, g \in {1, 2}}
VecArgs == StateArgs(VecObs)
VecLayouts ==
    {[x |-> 0, y |-> 1, rot |-> [k \in 1..9 |-> k + 1], goal |-> 11],
     [x |-> 1, y |-> 0, rot |-> [k \in 1..9 |-> k + 1], goal |-> 11]}

PhaseObs == {0, 1} \X {0, 1}
PredictorLists == {<<>>, <<"phase0">>, <<"phase0", "phase1">>, <<"phase1", "phase0">>}
ModArgs ==
    {MkArgs(st, a, <<1, 1>>, FALSE) : st \in PhaseObs, a \in SmallActions}
        \cup {MkArgs(<<0, 1>>, a, <<0, 0>>, TRUE) : a \in SmallActions}

----------------------------------------------------------------------------
(* History *)

NoFirst == [ret |-> NoRet, again |-> FALSE]

\* The arguments whose first outcome is remembered, one choice per class
\* (for MultiTargetVelocityReward: velocity 3 and the environment id 0...01).
Watched(self) ==
    CASE self.cls \in {"NoReward", "PosReward"} ->
            MkArgs(<<1, 2>>, ZeroAction, <<1, 1>>, FALSE)
      [] self.cls = "TargetVelocityReward" ->
            MkArgs(<<1, 0>>, ZeroAction, <<1, 1>>, FALSE)
      [] self.cls = "MultiTargetVelocityReward" ->
            MkArgs(<<3>> \o [i \in 1..self.env_id_len |-> IF i = self.env_id_len THEN 1 ELSE 0],
                   ZeroAction, <<1, 1>>, FALSE)
      [] self.cls = "VelocityVectorReward" ->
            MkArgs(<<1, 1, 1, 0, 0, 0, 1, 0, 0, 0, 1, 2>>, ZeroAction, <<1, 1>>, FALSE)
      [] self.cls = "ModulationDifferencePenalty" ->
            MkArgs(<<0, 1>>, <<1, -1>>, <<1, 1>>, FALSE)
      [] OTHER ->
            MkArgs(<<1, 0>>, <<-1, 2>>, <<0, 0>>, TRUE)

----------------------------------------------------------------------------
(* The state machine *)

Init ==
    /\ ctor = [cls |-> "none"]
    /\ inst = NoInst
    /\ op = "none"
    /\ args = NoArgs
    /\ ret = NoRet
    /\ log = <<>>
    /\ first = NoFirst

\* the constructor call c ran with outcome r
Constructed(c, r) ==
    /\ ctor' = c
    /\ inst' = r.self
    /\ ret' = r.ret
    /\ op' = "__init__"
    /\ UNCHANGED <<args, log, first>>

\* __call__ ran on arguments a with outcome r
Called(a, r) ==
    /\ inst' = r.self
    /\ ret' = r.ret
    /\ log' = r.log
    /\ args' = a
    /\ op' = "__call__"
    /\ first' = IF a # Watched(inst) THEN first
                ELSE IF first = NoFirst THEN [ret |-> r.ret, again |-> FALSE]
                ELSE [first EXCEPT !.again = TRUE]
    /\ UNCHANGED ctor

NewNoReward ==
    /\ op = "none"
    /\ Constructed([cls |-> "NoReward"], NoReward_init)

NewPosReward ==
    /\ op = "none"
    /\ \E pos_idx \in {0, 1} :
            Constructed([cls |-> "PosReward", pos_idx |-> pos_idx], PosReward_init(pos_idx))

NewCustomReward ==
    /\ op = "none"
    /\ \E cb \in Callbacks :
            Constructed([cls |-> "CustomReward", reward_callback |-> cb], CustomReward_init(cb))

NewTargetVelocityReward ==
    /\ op = "none"
    /\ \E t \in TargetVels, idx \in {0, 1} :
            Constructed([cls |-> "TargetVelocityReward", target_velocity |-> t, x_vel_idx |-> idx],
                        TargetVelocityReward_init(t, idx))

NewMultiTargetVelocityReward ==
    /\ op = "none"
    /\ \E t \in {2}, n \in 1..ByteBits, sc \in ScalingSets :
            Constructed([cls |-> "MultiTargetVelocityReward", target_velocity |-> t,
                         x_vel_idx |-> 0, env_id_len |-> n, scalings |-> sc],
                        MultiTargetVelocityReward_init(t, 0, n, sc))

NewVelocityVectorReward ==
    /\ op = "none"
    /\ \E l \in VecLayouts :
            Constructed([cls |-> "VelocityVectorReward", x_vel_idx |-> l.x, y_vel_idx |-> l.y,
                         rot_mat_idx |-> l.rot, goal_vel_idx |-> l.goal],
                        VelocityVectorReward_init(l.x, l.y, l.rot, l.goal))

NewOutOfBoundsActionCost ==
    /\ op = "none"
    /\ \E b \in BoundPairs, sc \in Scales \ {1}, c \in Costs, ft \in FuncTypes :
            Constructed([cls |-> "OutOfBoundsActionCost", lower_bound |-> b[1],
                         upper_bound |-> b[2], reward_scale |-> sc, const_cost |-> c,
                         func_type |-> ft],
                        OutOfBoundsActionCost_init(b[1], b[2], sc, c, ft))

NewActionCost ==
    /\ op = "none"
    /\ \E m \in Means, sc \in Scales, ft \in FuncTypes :
            Constructed([cls |-> "ActionCost", action_mean |-> m, reward_scale |-> sc,
                         func_type |-> ft],
                        ActionCost_init(m, sc, ft))

NewInBoundsBonus ==
    /\ op = "none"
    /\ \E b \in BoundPairs, sc \in Scales \ {0}, bv \in Costs :
            Constructed([cls |-> "InBoundsBonus", lower_bound |-> b[1], upper_bound |-> b[2],
                         reward_scale |-> sc, bonus_val |-> bv],
                        InBoundsBonus_init(b[1], b[2], sc, bv))

NewModulationDifferencePenalty ==
    /\ op = "none"
    /\ \E m \in Modulators, ps \in PredictorLists, sc \in {1, 2}, ft \in FuncTypes :
            Constructed([cls |-> "ModulationDifferencePenalty", action_space_modulator |-> m,
                         cycle_percentage_predictors |-> ps, reward_scale |-> sc,
                         func_type |-> ft],
                        ModulationDifferencePenalty_init(m, ps, sc, ft))

CallNoReward ==
    /\ inst.cls = "NoReward"
    /\ \E a \in PosArgs :
        Called(a, NoReward_call(inst, a.state, a.action, a.next_state, a.absorbing))

CallPosReward ==
    /\ inst.cls = "PosReward"
    /\ \E a \in PosArgs :
        Called(a, PosReward_call(inst, a.state, a.action, a.next_state, a.absorbing))

CallCustomReward ==
    /\ inst.cls = "CustomReward"
    /\ \E a \in ActionArgs :
        Called(a, CustomReward_call(inst, a.state, a.action, a.next_state, a.absorbing))

CallTargetVelocityReward ==
    /\ inst.cls = "TargetVelocityReward"
    /\ \E a \in VelArgs :
        Called(a, TargetVelocityReward_call(inst, a.state, a.action, a.next_state, a.absorbing))

CallMultiTargetVelocityReward ==
    /\ inst.cls = "MultiTargetVelocityReward"
    /\ \E a \in EnvArgs[inst.env_id_len] :
        Called(a, MultiTargetVelocityReward_call(inst, a.state, a.action, a.next_state,
                                                 a.absorbing))

CallVelocityVectorReward ==
    /\ inst.cls = "VelocityVectorReward"
    /\ \E a \in VecArgs :
        Called(a, VelocityVectorReward_call(inst, a.state, a.action, a.next_state, a.absorbing))

CallOutOfBoundsActionCost ==
    /\ inst.cls = "OutOfBoundsActionCost"
    /\ \E a \in ActionArgs :
        Called(a, OutOfBoundsActionCost_call(inst, a.state, a.action, a.next_state, a.absorbing))

CallActionCost ==
    /\ inst.cls = "ActionCost"
    /\ \E a \in ActionArgs :
        Called(a, ActionCost_call(inst, a.state, a.action, a.next_state, a.absorbing))

CallInBoundsBonus ==
    /\ inst.cls = "InBoundsBonus"
    /\ \E a \in ActionArgs :
        Called(a, InBoundsBonus_call(inst, a.state, a.action, a.next_state, a.absorbing))

CallModulationDifferencePenalty ==
    /\ inst.cls = "ModulationDifferencePenalty"
    /\ \E a \in ModArgs :
        Called(a, ModulationDifferencePenalty_call(inst, a.state, a.action, a.next_state,
                                                   a.absorbing))

ResetState ==
    /\ inst # NoInst
    /\ inst' = reset_state(inst)
    /\ op' = "reset_state"
    /\ UNCHANGED <<ctor, args, ret, log, first>>

Next ==
    \/ NewNoReward
    \/ NewPosReward
    \/ NewCustomReward
    \/ NewTargetVelocityReward
    \/ NewMultiTargetVelocityReward
    \/ NewVelocityVectorReward
    \/ NewOutOfBoundsActionCost
    \/ NewActionCost
    \/ NewInBoundsBonus
    \/ NewModulationDifferencePenalty
    \/ CallNoReward
    \/ CallPosReward
    \/ CallCustomReward
    \/ CallTargetVelocityReward
    \/ CallMultiTargetVelocityReward
    \/ CallVelocityVectorReward
    \/ CallOutOfBoundsActionCost
    \/ CallActionCost
    \/ CallInBoundsBonus
    \/ CallModulationDifferencePenalty
    \/ ResetState

Spec == Init /\ [][Next]_vars

----------------------------------------------------------------------------
(* Specifications of one class each *)

NextPenaltyFunc ==
    \/ NewOutOfBoundsActionCost
    \/ NewActionCost
    \/ NewModulationDifferencePenalty
    \/ CallOutOfBoundsActionCost
    \/ CallActionCost
    \/ CallModulationDifferencePenalty
    \/ ResetState

SpecPenaltyFunc == Init /\ [][NextPenaltyFunc]_vars

NextMultiTargetVelocityReward ==
    \/ NewMultiTargetVelocityReward
    \/ CallMultiTargetVelocityReward
    \/ ResetState

SpecMultiTargetVelocityReward == Init /\ [][NextMultiTargetVelocityReward]_vars

NextInBoundsBonus ==
    \/ NewInBoundsBonus
    \/ CallInBoundsBonus
    \/ ResetState

SpecInBoundsBonus == Init /\ [][NextInBoundsBonus]_vars

NextActionCost ==
    \/ NewActionCost
    \/ CallActionCost
    \/ ResetState

SpecActionCost == Init /\ [][NextActionCost]_vars

NextTargetVelocityReward ==
    \/ NewTargetVelocityReward
    \/ CallTargetVelocityReward
    \/ ResetState

SpecTargetVelocityReward == Init /\ [][NextTargetVelocityReward]_vars

NextModulationDifferencePenalty ==
    \/ NewModulationDifferencePenalty
    \/ CallModulationDifferencePenalty
    \/ ResetState

SpecModulationDifferencePenalty == Init /\ [][NextModulationDifferencePenalty]_vars

NextOutOfBoundsActionCost ==
    \/ NewOutOfBoundsActionCost
    \/ CallOutOfBoundsActionCost
    \/ ResetState

SpecOutOfBoundsActionCost == Init /\ [][NextOutOfBoundsActionCost]_vars

----------------------------------------------------------------------------
(* Properties *)

\* a __call__ of class c has returned, and its outcome is the one on record
Evaluated(c) == ctor.cls = c /\ ret.status = "ok" /\ args # NoArgs

\* component i of the last action lies within [lower_bound, upper_bound]
WithinBounds(i) ==
    /\ Bcast(ctor.lower_bound, i) <= args.action[i]
    /\ args.action[i] <= Bcast(ctor.upper_bound, i)

AllWithinBounds == \A i \in 1..Len(args.action) : WithinBounds(i)

(* C1, as stated: for every accepted configuration, OutOfBoundsActionCost
   returns 0 when every action component lies within [lower_bound,
   upper_bound] (bounds included) and a strictly negative value when some
   component lies outside. *)
C1_AsStated ==
    Evaluated("OutOfBoundsActionCost") =>
        /\ AllWithinBounds => ret.val = 0
        /\ ~AllWithinBounds => ret.val < 0

(* C1, amended: the result is 0 when every component lies within the bounds,
   for every accepted configuration; it is strictly negative when some
   component lies outside, provided reward_scale > 0 and const_cost >= 0. *)
C1_OutOfBoundsSign ==
    Evaluated("OutOfBoundsActionCost") =>
        /\ AllWithinBounds => ret.val = 0
        /\ (~AllWithinBounds /\ ctor.reward_scale > 0 /\ ctor.const_cost >= 0)
              => ret.val < 0

\* a penalised call: one component below the lower bound, one above the upper
C1_Witness ==
    /\ Evaluated("OutOfBoundsActionCost")
    /\ ctor.reward_scale > 0 /\ ctor.const_cost >= 0
    /\ \E i, j \in 1..Len(args.action) :
          /\ args.action[i] < Bcast(ctor.lower_bound, i)
          /\ args.action[j] > Bcast(ctor.upper_bound, j)
          /\ WithinBounds(j) = FALSE
    /\ ret.val < 0

----------------------------------------------------------------------------

PenaltyClasses == {"OutOfBoundsActionCost", "ActionCost", "ModulationDifferencePenalty"}

(* C2: constructing ActionCost, OutOfBoundsActionCost or
   ModulationDifferencePenalty with a selector other than 'abs' or 'squared'
   raises in the constructor: no object exists, so neither __call__ nor
   reset_state can follow, and no penalty function was chosen; with 'abs' or
   'squared' the constructor returns an object holding that function. *)
C2_SelectorFailsFast ==
    ctor.cls \in PenaltyClasses =>
        IF ctor.func_type \in {"abs", "squared"}
        THEN /\ inst.cls = ctor.cls
             /\ inst.func = (IF ctor.func_type = "abs" THEN "np.abs" ELSE "np.square")
             /\ ret.status # "Exception"
        ELSE /\ inst = NoInst
             /\ ret = Raised("Exception")
             /\ op = "__init__"
             /\ args = NoArgs
             /\ ~ENABLED NextPenaltyFunc

\* the constructor has raised on a bad selector
C2_Witness ==
    /\ ctor.cls = "ModulationDifferencePenalty"
    /\ ctor.func_type = "bogus"
    /\ ret = Raised("Exception")
    /\ inst = NoInst

----------------------------------------------------------------------------

\* the entries of s as a big-endian binary number, first entry most significant
RECURSIVE BigEndian(_)
BigEndian(s) ==
    IF s = <<>> THEN 0
    ELSE 2 * BigEndian(SubSeq(s, 1, Len(s) - 1)) + s[Len(s)]

\* the trailing env_id_len entries of the last observation
EnvId == SubSeq(args.state, Len(args.state) - ctor.env_id_len + 1, Len(args.state))

(* C3: MultiTargetVelocityReward decodes the trailing env_id_len 0/1 entries
   (1 <= env_id_len <= 8) as a big-endian integer ind and computes the reward
   against target_velocity * scalings[ind]; an ind beyond the end of scalings
   raises and selects no entry. *)
C3_BigEndianIndex ==
    (ctor.cls = "MultiTargetVelocityReward" /\ args # NoArgs) =>
        LET ind == BigEndian(EnvId)
            x_vel == args.state[ctor.x_vel_idx + 1]
        IN  IF ind < Len(ctor.scalings)
            THEN /\ ret.status = "ok"
                 /\ ret.ind = ind
                 /\ ret.target_vel = ctor.target_velocity * ctor.scalings[ind + 1]
                 /\ ret.val = NpExp(-((x_vel - ret.target_vel) * (x_vel - ret.target_vel)))
            ELSE /\ ret.status = "IndexError"
                 /\ ret.ind = ind

\* env_id_len = 2, scalings = [1, 2, 3, 4]: the id [1, 0] selects scalings[2] = 3
C3_Witness ==
    /\ ctor.cls = "MultiTargetVelocityReward" /\ args # NoArgs
    /\ ctor.env_id_len = 2
    /\ ctor.scalings = <<1, 2, 3, 4>>
    /\ EnvId = <<1, 0>>
    /\ ret.status = "ok" /\ ret.ind = 2
    /\ ret.target_vel = ctor.target_velocity * 3

----------------------------------------------------------------------------

\* number of components of the last action strictly inside the bounds
InsideCount ==
    Cardinality({i \in 1..Len(args.action) :
                    /\ Bcast(ctor.lower_bound, i) < args.action[i]
                    /\ args.action[i] < Bcast(ctor.upper_bound, i)})

(* C5, as stated: InBoundsBonus returns scale * bonus_val * (number of action
   components strictly between the bounds), and the result is non-negative. *)
C5_AsStated ==
    Evaluated("InBoundsBonus") =>
        /\ ret.val = ctor.reward_scale * ctor.bonus_val * InsideCount
        /\ ret.val >= 0

(* C5, amended: InBoundsBonus returns scale * bonus_val * (number of action
   components strictly between the bounds); the result is non-negative when
   scale * bonus_val >= 0. *)
C5_StrictInsideBonus ==
    Evaluated("InBoundsBonus") =>
        /\ ret.val = ctor.reward_scale * ctor.bonus_val * InsideCount
        /\ ctor.reward_scale * ctor.bonus_val >= 0 => ret.val >= 0

\* The example bounds (0, 1), action [0.5, 1.5], on the integer grid (unit
\* 0.5, origin moved to 0.5): bounds (-1, 1), action [0, 2], bonus 1,
\* scale 1: only the first component qualifies and the result is 1.
C5_Witness ==
    /\ Evaluated("InBoundsBonus")
    /\ ctor.lower_bound = <<-1>> /\ ctor.upper_bound = <<1>>
    /\ ctor.bonus_val = 1 /\ ctor.reward_scale = 1
    /\ args.action = <<0, 2>>
    /\ ret.val = 1

----------------------------------------------------------------------------

\* the penalty function a selector names
Penalty(func_type, x) ==
    IF func_type = "abs" THEN (IF x >= 0 THEN x ELSE -x) ELSE x * x

\* sum over i of Penalty(func_type, a[i] - b[i])
RECURSIVE PenaltySum(_, _, _, _)
PenaltySum(func_type, a, b, n) ==
    IF n = 0 THEN 0
    ELSE PenaltySum(func_type, a, b, n - 1) + Penalty(func_type, a[n] - b[n])

\* the reference action, one entry per actuator
MeanVector == [i \in 1..Len(args.action) |-> Bcast(ctor.action_mean, i)]

(* C6: ActionCost returns -scale * sum_i penaltyFunc(action[i] - mean[i]),
   abs for 'abs' and the square for 'squared': a function of the action and
   the configuration alone, whatever the observations and the terminal flag. *)
C6_ActionCostValue ==
    Evaluated("ActionCost") =>
        ret.val = -(ctor.reward_scale
                      * PenaltySum(ctor.func_type, args.action, MeanVector,
                                   Len(args.action)))

\* action_mean [0, 0], scale 1, 'abs', action [1, -1] gives -2, here with the
\* terminal flag set
C6_Witness ==
    /\ Evaluated("ActionCost")
    /\ ctor.action_mean = <<0, 0>> /\ ctor.reward_scale = 1 /\ ctor.func_type = "abs"
    /\ args.action = <<1, -1>> /\ args.absorbing
    /\ ret.val = -2

----------------------------------------------------------------------------

\* the velocity the last call read, and its distance from the target
ReadVel == args.state[ctor.x_vel_idx + 1]
Dist(v) == IF v >= ctor.target_velocity THEN v - ctor.target_velocity
           ELSE ctor.target_velocity - v

\* the reward of the same object for velocity v at the configured index
RewardAt(v) ==
    TargetVelocityReward_call(inst, IF ctor.x_vel_idx = 0 THEN <<v, 0>> ELSE <<0, v>>,
                              args.action, args.next_state, args.absorbing).ret.val

(* C7, as stated: TargetVelocityReward returns 1.0 when v == target, a value
   strictly between 0 and 1 otherwise, and a strictly smaller value for every
   velocity farther from the target. *)
C7_AsStated ==
    Evaluated("TargetVelocityReward") =>
        /\ ReadVel = ctor.target_velocity => ret.val = FOne
        /\ ReadVel # ctor.target_velocity => FLess(FZero, ret.val) /\ FLess(ret.val, FOne)
        /\ \A w \in VelVals : Dist(w) > Dist(ReadVel) => FLess(RewardAt(w), ret.val)

(* C7, amended: TargetVelocityReward returns 1.0 when v == target and a value
   in [0, 1] otherwise, never larger for a velocity farther from the target;
   the value is strictly between 0 and 1 while 1 <= (v - target)^2 <= 745 and
   is exactly 0.0 once (v - target)^2 exceeds 745, where exp underflows. *)
C7_VelocityBump ==
    Evaluated("TargetVelocityReward") =>
        LET d2 == Dist(ReadVel) * Dist(ReadVel)
        IN  /\ ReadVel = ctor.target_velocity => ret.val = FOne
            /\ FLeq(FZero, ret.val) /\ FLeq(ret.val, FOne)
            /\ (1 <= d2 /\ d2 <= ExpUnderflow) => FLess(FZero, ret.val) /\ FLess(ret.val, FOne)
            /\ d2 > ExpUnderflow => ret.val = FZero
            /\ \A w \in VelVals : Dist(w) > Dist(ReadVel) => FLeq(RewardAt(w), ret.val)

\* a velocity off the target with a reward strictly inside (0, 1), and a
\* farther velocity with a strictly smaller one
C7_Witness ==
    /\ Evaluated("TargetVelocityReward")
    /\ ReadVel # ctor.target_velocity
    /\ FLess(FZero, ret.val) /\ FLess(ret.val, FOne)
    /\ \E w \in VelVals : Dist(w) > Dist(ReadVel) /\ FLess(RewardAt(w), ret.val)

----------------------------------------------------------------------------

\* the predictors' outputs for observation s, in predictor order
Progress(s) ==
    [k \in 1..Len(ctor.cycle_percentage_predictors) |->
        predict_cycle_percentage(ctor.cycle_percentage_predictors[k], s)]

IsModulation == ctor.cls = "ModulationDifferencePenalty" /\ inst # NoInst

(* C4: whatever calls and resets have happened, the cached cycle-progress
   vector of a ModulationDifferencePenalty is the predictors' outputs, in
   order, for the observation of the most recent __call__ (zeros before the
   first call): only __call__ changes it, and each call overwrites it. *)
C4_CacheIsLastProgress ==
    IsModulation =>
        IF args = NoArgs
        THEN inst.cycle_progress = [k \in 1..Len(ctor.cycle_percentage_predictors) |-> 0]
        ELSE inst.cycle_progress = Progress(args.state)

\* after a call and a reset the cache still holds a progress that differs
\* from the initial zeros
C4_Witness ==
    /\ IsModulation
    /\ op = "reset_state"
    /\ args # NoArgs
    /\ inst.cycle_progress = Progress(args.state)
    /\ \E k \in 1..Len(inst.cycle_progress) : inst.cycle_progress[k] # 0

(* C10: one ModulationDifferencePenalty.__call__ invokes every predictor on
   the current observation, in order, then the modulator exactly once with
   the action and the cycle progress just computed, and returns
   -scale * sum(penaltyFunc(action - modulated action)). *)
C10_CallOrder ==
    (IsModulation /\ args # NoArgs) =>
        LET n == Len(ctor.cycle_percentage_predictors)
            fresh == Progress(args.state)
            modulated == modulate_action(ctor.action_space_modulator, args.action, fresh)
        IN  /\ Len(log) = n + 1
            /\ \A k \in 1..n :
                  log[k] = [call |-> "predict_cycle_percentage", channel |-> k - 1,
                            state |-> args.state]
            /\ log[n + 1] = [call |-> "modulate_action", action |-> args.action,
                             cycle_progress |-> fresh]
            /\ ret.status = "ok"
            /\ ret.val = -(ctor.reward_scale
                             * PenaltySum(ctor.func_type, args.action, modulated,
                                          Len(args.action)))

\* a call with two predictors whose fresh progress is not the zero vector,
\* and a penalty that is not zero
C10_Witness ==
    /\ IsModulation /\ op = "__call__"
    /\ Len(ctor.cycle_percentage_predictors) = 2
    /\ Progress(args.state) # <<0, 0>>
    /\ Len(log) = 3
    /\ ret.val < 0

----------------------------------------------------------------------------

(* C8: reset_state changes nothing of the object, whatever its class; on a
   ModulationDifferencePenalty the cached cycle progress stays as the last
   __call__ left it. *)
C8_ResetIsNoOp ==
    [][op' = "reset_state" => inst' = inst /\ ctor' = ctor]_vars

\* a ModulationDifferencePenalty that was reset after a call, its cache
\* still not zero
C8_Witness ==
    /\ op = "reset_state"
    /\ ctor.cls = "ModulationDifferencePenalty"
    /\ \E k \in 1..Len(inst.cycle_progress) : inst.cycle_progress[k] # 0

(* C9: __call__ leaves every field of the object unchanged, except that on a
   ModulationDifferencePenalty it replaces cycle_progress and nothing else;
   for the other classes a call returns what the first call with the same
   arguments returned, whatever calls and resets came in between, and what
   the previous call returned when it repeats that call's arguments. *)
C9_CallFrame ==
    [][op' = "__call__" =>
          IF ctor.cls = "ModulationDifferencePenalty"
          THEN [inst' EXCEPT !.cycle_progress = inst.cycle_progress] = inst
          ELSE /\ inst' = inst
               /\ (args # NoArgs /\ args' = args) => ret' = ret
               /\ (first # NoFirst /\ args' = Watched(inst)) => ret' = first.ret]_vars

\* a stateless object called on the watched arguments a second time or
\* later, after a reset: same fields, same nonzero result as the first time
C9_Witness ==
    /\ op = "__call__"
    /\ ctor.cls = "ActionCost"
    /\ first.again
    /\ args = Watched(inst)
    /\ ret = first.ret /\ ret.val # 0
    /\ inst = ActionCost_init(ctor.action_mean, ctor.reward_scale, ctor.func_type).self

====
